---- MODULE Spec2Model ----
(***************************************************************************)
(* The live quiz session engine of backend/server.js: the socket handlers  *)
(* join-quiz, start-quiz, submit-answer, next-question, finish-quiz and    *)
(* disconnect acting on the process-wide map activeQuizSessions, the       *)
(* auto-advance timers they arm, and the continuations of the async        *)
(* handlers suspended at an await.                                         *)
(*                                                                         *)
(* Objects are modelled by reference: a session is an index into the heap  *)
(* `sessions`, a participant an index into the heap `parts`, because a     *)
(* suspended handler keeps the object it looked up before the await.       *)
(***************************************************************************)
EXTENDS Integers, Sequences, FiniteSets, Bags, TLC

\* ------------------------------------------------------------------ bounds
\* events the clients send in one run (join, start, submit, next-question,
\* finish, disconnect); timers and resumed handlers are not counted
MaxEvents == 4
\* length of the texts of options and answers
MaxTextLen == 3

\* ------------------------------------------------------- the environment
\* socket connections (socket.id); every one is connected in Init
Conns == {"c1", "c2"}

\* quiz ids a client may name in join-quiz; "nx" names no stored quiz
StoredQuizIds == {"qa", "qz"}
JoinQuizIds == StoredQuizIds \cup {"nx"}

\* display names a client may send
Names == {"ann"}

\* the stored quiz documents: quiz "qa" has two questions, quiz "qz" none
QuizQuestions(quizId) == IF quizId = "qa" THEN <<"q1", "q2">> ELSE <<>>

\* quiz.settings (timeLimit: seconds per question)
QuizSettings(quizId) == [timeLimit |-> 30]

\* Quiz.findById(quizId): the document (named by its id) or null ("")
FindQuiz(quizId) == IF quizId \in StoredQuizIds THEN quizId ELSE ""

\* roomId = `quiz-${quizId}`
RoomId(quizId) == "quiz-" \o quizId

RoomIds == {RoomId(q) : q \in StoredQuizIds}

\* ----------------------------------------------------------------- texts
\* A string is the sequence of its characters, so that case and surrounding
\* blanks are part of it.
Chars == {"P", "p", " "}

Texts == UNION {[1..n -> Chars] : n \in 0..MaxTextLen}

\* a selectedAnswer that is not a string (the payload is the client's)
NotAString == <<"undefined">>

\* String.prototype.toLowerCase
LowerChar(ch) == IF ch = "P" THEN "p" ELSE ch

\* a comparison that keeps the case
KeepCase(s) == s

ToLowerCase(s) == [i \in 1..Len(s) |-> LowerChar(s[i])]

\* String.prototype.trim
RECURSIVE Trim(_)
Trim(s) ==
  IF s = <<>> THEN s
  ELSE IF Head(s) = " " THEN Trim(Tail(s))
  ELSE IF s[Len(s)] = " " THEN Trim(SubSeq(s, 1, Len(s) - 1))
  ELSE s

\* ------------------------------------------------------------- questions
Option(text, isCorrect) == [text |-> text, isCorrect |-> isCorrect]

\* the stored question documents of quiz "qa"; "qx" names no stored question
QuestionIds == {"q1", "q2"}

\* Question.findById(questionId): the document, or null (NoQuestion)
NoQuestion ==
  [type |-> "", question |-> "", options |-> <<>>, correctAnswer |-> <<>>,
   timeLimit |-> 0, points |-> 0]

FindQuestion(questionId) ==
  IF questionId = "q1"
    THEN [type |-> "multiple-choice", question |-> "q1?",
          options |-> <<Option(<<"P">>, TRUE), Option(<<"p">>, FALSE)>>,
          correctAnswer |-> <<>>, timeLimit |-> 30, points |-> 23]
  ELSE IF questionId = "q2"
    THEN [type |-> "fill-in-blank", question |-> "q2?", options |-> <<>>,
          correctAnswer |-> <<"P">>, timeLimit |-> 60, points |-> 17]
  ELSE NoQuestion

\* session.quiz.questions[i] of the populated quiz (i from 0); undefined
\* (NoQuestion) beyond the end
QuestionAt(quizId, i) ==
  IF i + 1 \in 1..Len(QuizQuestions(quizId))
    THEN FindQuestion(QuizQuestions(quizId)[i + 1])
    ELSE NoQuestion

\* ------------------------------------------------------ question payloads
\* options sent with their correctness flags
KeepCorrect(options) == options

\* question.options.map(opt => ({ text: opt.text }))
HideCorrect(options) == [i \in 1..Len(options) |-> [text |-> options[i].text]]

\* questionData of start-quiz and next-question
QuestionData(question, questionNumber, totalQuestions, settings) ==
  [questionNumber |-> questionNumber,
   totalQuestions |-> totalQuestions,
   question |-> question.question,
   type |-> question.type,
   options |-> HideCorrect(question.options),
   timeLimit |-> IF question.timeLimit # 0 THEN question.timeLimit ELSE settings.timeLimit,
   points |-> question.points]

\* ------------------------------------------------------------- messages
\* an event without payload
NoData == [payload |-> "none"]

\* a message that goes to every socket
EmitAll(c, event, data) == [to |-> <<"all">>, event |-> event, data |-> data]

\* socket.emit(event, data): to the client of connection c
Emit(c, event, data) == [to |-> <<"socket", c>>, event |-> event, data |-> data]

\* io.to(roomId).emit(event, data): to every socket in the room
Broadcast(roomId, event, data) == [to |-> <<"room", roomId>>, event |-> event, data |-> data]

\* socket.to(roomId).emit(event, data): to the room except connection c
ToOthers(c, roomId, event, data) ==
  [to |-> <<"others", roomId, c>>, event |-> event, data |-> data]

\* ------------------------------------------------------- answer evaluation
\* question.options.find(opt => opt.isCorrect): the index of the first
\* option flagged correct, 0 when find returns undefined
FindCorrect(options) ==
  IF \E i \in 1..Len(options) : options[i].isCorrect
    THEN CHOOSE i \in 1..Len(options) :
           options[i].isCorrect /\ \A j \in 1..(i - 1) : ~options[j].isCorrect
    ELSE 0

\* the value of isCorrect after the type switch of submit-answer: "true",
\* "false", "undefined" (correctOption && ... with no flagged option), or
\* "throws" (toLowerCase of a non-string)
IsCorrect(question, selectedAnswer) ==
  IF question.type \in {"multiple-choice", "true-false"}
    THEN LET k == FindCorrect(question.options) IN
         IF k = 0 THEN "undefined"
         ELSE IF question.options[k].text = selectedAnswer THEN "true" ELSE "false"
  ELSE IF question.type = "fill-in-blank"
    THEN IF selectedAnswer = NotAString THEN "throws"
         ELSE IF Trim(ToLowerCase(question.correctAnswer)) = Trim(ToLowerCase(selectedAnswer))
           THEN "true" ELSE "false"
  ELSE "false"

\* const points = isCorrect ? question.points : 0
Points(question, isCorrect) == IF isCorrect = "true" THEN question.points ELSE 0

\* ------------------------------------------------------------ percentages
\* Math.round((score / maxScore) * 100) is computed on JS Numbers (IEEE 754
\* doubles): the quotient is rounded to 53 significant bits, the product
\* with 100 is rounded again, and Math.round takes the nearest integer, a
\* half going up. A positive double is 1.d1 d2 d3 d4 * 2^e: the bits after
\* the first are kept as Limbs digits of LimbBits bits each.
Precision == 53
LimbBits == 13
Limbs == (Precision - 1) \div LimbBits

RECURSIVE Pow2(_)
Pow2(n) == IF n = 0 THEN 1 ELSE 2 * Pow2(n - 1)

Base == Pow2(LimbBits)

\* round to nearest, ties to even: digits are the bits kept, tail tells how
\* the part dropped compares with half a unit of the last bit kept (-1, 0, 1)
RoundEven(digits, e, tail) ==
  IF tail > 0 \/ (tail = 0 /\ digits[Limbs] % 2 = 1)
    THEN IF \A i \in 1..Limbs : digits[i] = Base - 1
           THEN [digits |-> [i \in 1..Limbs |-> 0], e |-> e + 1]
           ELSE LET k == CHOOSE i \in 1..Limbs :
                           digits[i] # Base - 1 /\ \A j \in (i + 1)..Limbs : digits[j] = Base - 1
                IN [digits |-> [i \in 1..Limbs |->
                                  IF i < k THEN digits[i] ELSE IF i = k THEN digits[i] + 1 ELSE 0],
                    e |-> e]
    ELSE [digits |-> digits, e |-> e]

\* the next n digits of r / den (r < den), and what is left
RECURSIVE QuotientDigits(_, _, _)
QuotientDigits(r, den, n) ==
  IF n = 0 THEN [digits |-> <<>>, r |-> r]
  ELSE LET rest == QuotientDigits((r * Base) % den, den, n - 1)
       IN [digits |-> <<(r * Base) \div den>> \o rest.digits, r |-> rest.r]

\* the largest e with m * 2^e <= s (s >= m)
RECURSIVE Log2Floor(_, _)
Log2Floor(s, m) == IF 2 * m <= s THEN 1 + Log2Floor(s, 2 * m) ELSE 0

\* the smallest k with s * 2^k >= m
RECURSIVE ShiftUp(_, _)
ShiftUp(s, m) == IF s >= m THEN 0 ELSE 1 + ShiftUp(2 * s, m)

\* s / m of two positive integers, as a double
Divide(s, m) ==
  LET e    == IF s >= m THEN Log2Floor(s, m) ELSE 0 - ShiftUp(s, m)
      num  == IF e >= 0 THEN s ELSE s * Pow2(0 - e)
      den  == IF e >= 0 THEN m * Pow2(e) ELSE m
      q    == QuotientDigits(num - den, den, Limbs)
      tail == IF 2 * q.r > den THEN 1 ELSE IF 2 * q.r = den THEN 0 ELSE -1
  IN RoundEven(q.digits, e, tail)

\* the exact product of 1.d1..di with k, plus carry: the first element is
\* the integer part
RECURSIVE ProductDigits(_, _, _, _)
ProductDigits(digits, k, i, carry) ==
  IF i = 0 THEN <<k + carry>>
  ELSE Append(ProductDigits(digits, k, i - 1, (digits[i] * k + carry) \div Base),
              (digits[i] * k + carry) % Base)

\* the digits i.. of p shifted down by the bits of d, rem coming from above
RECURSIVE ShiftDigits(_, _, _, _)
ShiftDigits(p, d, i, rem) ==
  IF i > Len(p) THEN [digits |-> <<>>, r |-> rem]
  ELSE LET rest == ShiftDigits(p, d, i + 1, (rem * Base + p[i]) % d)
       IN [digits |-> <<(rem * Base + p[i]) \div d>> \o rest.digits, r |-> rest.r]

\* x * k of a double and a positive integer, as a double
Times(x, k) ==
  LET p     == ProductDigits(x.digits, k, Limbs, 0)
      extra == Log2Floor(p[1], 1)
      d     == Pow2(extra)
      q     == ShiftDigits(p, d, 2, p[1] % d)
      tail  == IF 2 * q.r > d THEN 1 ELSE IF 2 * q.r = d /\ extra > 0 THEN 0 ELSE -1
  IN RoundEven(q.digits, x.e + extra, tail)

\* Math.round of a positive double below 2^LimbBits: the integer part and
\* the first bit after it
MathRound(x) ==
  IF x.e < -1 THEN 0
  ELSE LET t == (Base + x.digits[1]) \div Pow2(LimbBits - 1 - x.e)
       IN (t \div 2) + (t % 2)

\* Math.round((score / maxScore) * 100) of a score and a positive maxScore
Percentage(score, maxScore) ==
  IF score = 0 THEN 0 ELSE MathRound(Times(Divide(score, maxScore), 100))

\* ----------------------------------------------------------------- state
VARIABLES
  activeQuizSessions,  \* Map roomId -> session (heap index), 0 = no entry
  sessions,            \* heap of session objects, in creation order
  parts,               \* heap of participant objects, in creation order
  sockets,             \* per connection: connected, and socket.roomId
  pending,             \* bag of async handlers suspended at an await
  timers,              \* bag of armed setTimeout callbacks
  alive,               \* FALSE once an uncaught exception ended the process
  events,              \* number of client events received so far
  hist,                \* per session, history of its run (not program state)
  trace,               \* history of the whole run (not program state)
  out,                 \* the messages the last step emitted, in order
  questionStats,       \* stored per question: stats.totalAnswers, stats.correctAnswers
  scoreRecords,        \* bag of the Score documents stored
  eval                 \* a part of a handler run on its own: its inputs and result

engine == <<activeQuizSessions, sessions, parts, sockets, pending, timers, alive, events, hist, trace, out,
           questionStats, scoreRecords>>

vars == <<engine, eval>>

\* ------------------------------------------------------- participant Map
\* session.participants is a JS Map socket.id -> participant object; it is
\* kept as the sequence of its entries in insertion order.
PHas(ps, id) == \E i \in 1..Len(ps) : ps[i].id = id

PGet(ps, id) == IF PHas(ps, id) THEN (CHOOSE e \in {ps[i] : i \in 1..Len(ps)} : e.id = id).p ELSE 0

\* a Map that takes every set as a new entry
PSetAppend(ps, id, p) == Append(ps, [id |-> id, p |-> p])

\* Map.set: an existing key keeps its position, a new key goes last
PSet(ps, id, p) ==
  IF PHas(ps, id)
    THEN [i \in 1..Len(ps) |-> IF ps[i].id = id THEN [id |-> id, p |-> p] ELSE ps[i]]
    ELSE Append(ps, [id |-> id, p |-> p])

\* a Map that loses all its entries
PClear(ps, id) == <<>>

\* a Map that keeps all its entries
PKeep(ps, id) == ps

\* Map.delete
PDelete(ps, id) == SelectSeq(ps, LAMBDA e : e.id # id)

PIds(ps) == {ps[i].id : i \in 1..Len(ps)}

\* activeQuizSessions.get(socket.roomId); 0 when socket.roomId is unset or
\* the map has no entry
SessionOf(c) == IF sockets[c].roomId = "" THEN 0 ELSE activeQuizSessions[sockets[c].roomId]

\* The room has no session, or every participant of its session was a live
\* connection when it was inserted and has disconnected since.
RoomDeserted(r) ==
  \/ activeQuizSessions[r] = 0
  \/ LET sid == activeQuizSessions[r] IN
       /\ hist[sid].late = {}
       /\ \A c \in PIds(sessions[sid].participants) : ~sockets[c].connected

\* Participants of a session of this quiz have disconnected, and the last of
\* them is gone.
LastParticipantLeft(quizId) ==
  /\ \E sid \in 1..Len(sessions) : sessions[sid].quiz = quizId /\ hist[sid].left # {}
  /\ RoomDeserted(RoomId(quizId))

\* stats of a question nobody has answered
NoStats == [totalAnswers |-> 0, correctAnswers |-> 0]

\* ------------------------------------------------------------------ Init
EngineInit ==
  /\ activeQuizSessions = [r \in RoomIds |-> 0]
  /\ sessions = <<>>
  /\ parts = <<>>
  /\ sockets = [c \in Conns |-> [connected |-> TRUE, roomId |-> ""]]
  /\ pending = EmptyBag
  /\ timers = EmptyBag
  /\ alive = TRUE
  /\ events = 0
  /\ hist = <<>>
  /\ trace = [joinsOnly |-> TRUE, interleaved |-> FALSE, last |-> [event |-> "", conn |-> ""]]
  /\ out = <<>>
  /\ questionStats = [q \in QuestionIds |-> NoStats]
  /\ scoreRecords = EmptyBag

NoEval == [question |-> FindQuestion("q1"), selectedAnswer |-> <<>>, isCorrect |-> ""]

Init == EngineInit /\ eval = NoEval

One(x) == SetToBag({x})

\* the locals of a suspended handler; a handler uses those of its kind
Handler(kind, c) ==
  [kind |-> kind, conn |-> c, stage |-> 1, quizId |-> "", username |-> "",
   deserted |-> FALSE, sid |-> 0, pid |-> 0, questionId |-> "", selectedAnswer |-> <<>>,
   isCorrect |-> "", points |-> 0, total |-> 0, stats |-> NoStats, arrivedAt |-> 0,
   score |-> 0, maxScore |-> 0]

\* the client of connection c sends one more event
Receive(event, c) ==
  /\ events < MaxEvents
  /\ events' = events + 1
  /\ trace' = [trace EXCEPT !.joinsOnly = @ /\ event = "join-quiz",
                            !.last = [event |-> event, conn |-> c]]

\* --------------------------------------------------------------- join-quiz
\* the handler up to `await Quiz.findById(quizId).populate('questions')`
\* (deserted records, for the history, what the room was like on arrival)
JoinBegin(c, quizId, username) ==
  /\ alive
  /\ sockets[c].connected
  /\ Receive("join-quiz", c)
  /\ pending' = pending (+) One([Handler("join", c) EXCEPT
                        !.quizId = quizId, !.username = username,
                        !.deserted = FindQuiz(quizId) # "" /\ LastParticipantLeft(quizId)])
  /\ out' = <<>>
  /\ UNCHANGED <<activeQuizSessions, sessions, parts, sockets, timers, alive, hist, questionStats, scoreRecords>>

\* the new session object of the join handler
NewSession(quiz) ==
  [quiz |-> quiz, participants |-> <<>>, currentQuestion |-> 0,
   isActive |-> FALSE, startTime |-> FALSE]

\* the new participant object of the join handler
NewParticipant(username) == [username |-> username, score |-> 0, answers |-> <<>>]

NewHist == [started |-> FALSE, auto |-> TRUE, timeouts |-> 0, finishSignals |-> 0, late |-> {}, left |-> {}]

\* the handler after the await: the quiz is missing (error to the joiner)
JoinNotFound(h) ==
  /\ alive
  /\ BagIn(h, pending) /\ h.kind = "join"
  /\ FindQuiz(h.quizId) = ""
  /\ pending' = pending (-) One(h)
  /\ out' = <<Emit(h.conn, "error", [message |-> "Quiz not found"])>>
  /\ UNCHANGED <<activeQuizSessions, sessions, parts, sockets, timers, alive, events, hist, trace, questionStats, scoreRecords>>

\* a join that never finds the room's session
HasSessionNever(roomId) == FALSE

\* activeQuizSessions.has(roomId)
HasSession(roomId) == activeQuizSessions[roomId] # 0

\* the handler after the await: the rest of it runs without suspension
JoinResume(h) ==
  /\ alive
  /\ BagIn(h, pending) /\ h.kind = "join"
  /\ FindQuiz(h.quizId) # ""
  /\ LET c      == h.conn
         roomId == RoomId(h.quizId)
         has    == HasSession(roomId)
         sid    == IF has THEN activeQuizSessions[roomId] ELSE Len(sessions) + 1
         pid    == Len(parts) + 1
         base   == IF has THEN sessions ELSE Append(sessions, NewSession(FindQuiz(h.quizId)))
     IN /\ sockets' = [sockets EXCEPT ![c].roomId = roomId]
        /\ activeQuizSessions' = [activeQuizSessions EXCEPT ![roomId] = sid]
        /\ parts' = Append(parts, NewParticipant(h.username))
        /\ sessions' = [base EXCEPT ![sid].participants = PSet(@, c, pid)]
        /\ hist' = LET hb == IF has THEN hist ELSE Append(hist, NewHist) IN
                   [hb EXCEPT ![sid].late = IF sockets[c].connected THEN @ \ {c} ELSE @ \cup {c}]
        /\ trace' = [trace EXCEPT !.interleaved =
                       @ \/ \E g \in BagToSet(pending (-) One(h)) :
                              g.kind = "join" /\ g.quizId = h.quizId]
        /\ out' = LET count == Len(PSet(base[sid].participants, c, pid)) IN
                  <<ToOthers(c, roomId, "user-joined",
                             [username |-> h.username, participantCount |-> count]),
                    Emit(c, "quiz-joined",
                         [quiz |-> h.quizId, participantCount |-> count,
                          isActive |-> base[sid].isActive])>>
  /\ pending' = pending (-) One(h)
  /\ UNCHANGED <<timers, alive, events, questionStats, scoreRecords>>

\* ------------------------------------------------------------- disconnect
Disconnect(c) ==
  /\ alive
  /\ sockets[c].connected
  /\ Receive("disconnect", c)
  /\ sockets' = [sockets EXCEPT ![c].connected = FALSE]
  /\ LET sid == SessionOf(c) IN
       IF sid # 0
         THEN LET ps == PDelete(sessions[sid].participants, c) IN
              /\ sessions' = [sessions EXCEPT ![sid].participants = ps]
              /\ activeQuizSessions' =
                   IF Len(ps) = 0
                     THEN [activeQuizSessions EXCEPT ![sockets[c].roomId] = 0]
                     ELSE activeQuizSessions
              /\ out' = <<ToOthers(c, sockets[c].roomId, "user-left",
                                   [participantCount |-> Len(ps)])>>
         ELSE /\ out' = <<>>
              /\ UNCHANGED <<sessions, activeQuizSessions>>
  /\ hist' = [sid \in 1..Len(hist) |->
               IF PHas(sessions[sid].participants, c) /\ c \notin hist[sid].late
                 THEN [hist[sid] EXCEPT !.left = @ \cup {c}]
                 ELSE hist[sid]]
  /\ UNCHANGED <<parts, pending, timers, alive, questionStats, scoreRecords>>

\* -------------------------------------------------- the auto-advance timer
\* setTimeout(() => { socket.emit('next-question') }, ...) armed by socket c.
\* sid and idx record the session and question index it was armed for; the
\* callback itself captures only the socket.
Timer(c, sid, idx) == [conn |-> c, sid |-> sid, idx |-> idx]

\* ------------------------------------------------------------ start-quiz
\* An uncaught exception thrown in a synchronous socket handler ends the
\* process: the registry, the handlers, the timers and the connections go.
ProcessExit ==
  /\ alive' = FALSE
  /\ activeQuizSessions' = [r \in RoomIds |-> 0]
  /\ pending' = EmptyBag
  /\ timers' = EmptyBag
  /\ sockets' = [c \in Conns |-> [sockets[c] EXCEPT !.connected = FALSE]]
  /\ out' = <<>>
  /\ UNCHANGED <<sessions, parts, hist>>

StartQuiz(c) ==
  /\ alive
  /\ sockets[c].connected
  /\ Receive("start-quiz", c)
  /\ UNCHANGED <<questionStats, scoreRecords>>
  /\ LET sid == SessionOf(c)
         n   == IF sid = 0 THEN 0 ELSE Len(QuizQuestions(sessions[sid].quiz))
     IN IF sid = 0
          \* if (!session) return
          THEN /\ out' = <<>>
               /\ UNCHANGED <<activeQuizSessions, sessions, parts, sockets, pending,
                              timers, alive, hist>>
          ELSE IF n = 0
          \* question = questions[0] is undefined; question.question throws
          THEN ProcessExit
          ELSE /\ sessions' = [sessions EXCEPT ![sid].isActive = TRUE,
                                               ![sid].startTime = TRUE,
                                               ![sid].currentQuestion = 0]
               /\ out' = <<Broadcast(sockets[c].roomId, "quiz-started",
                                     QuestionData(QuestionAt(sessions[sid].quiz, 0), 1, n,
                                                  QuizSettings(sessions[sid].quiz)))>>
               /\ timers' = timers (+) One(Timer(c, sid, 0))
               /\ hist' = [hist EXCEPT ![sid].started = TRUE,
                                       ![sid].auto = ~hist[sid].started,
                                       ![sid].timeouts = 0]
               /\ UNCHANGED <<activeQuizSessions, parts, sockets, pending, alive>>

\* ---------------------------------------------------------- next-question
\* a bound check that is late by one
QuizFinishedLate(idx, n) == idx > n

\* session.currentQuestion >= session.quiz.questions.length
QuizFinished(idx, n) == idx >= n

\* an increment that skips a question
NextIndexSkip(idx) == idx + 2

\* session.currentQuestion += 1
NextIndex(idx) == idx + 1

\* The handler, run for socket c on top of the timer bag tb, after the
\* messages pre of the same step. origin is 0 for a request the client sent
\* on its own and otherwise the session whose timer signal the client is
\* answering.
NextQuestion(c, origin, tb, pre) ==
  LET sid == SessionOf(c) IN
  IF sid = 0 \/ ~sessions[sid].isActive
    \* if (!session || !session.isActive) return
    THEN /\ timers' = tb
         /\ out' = pre
         /\ UNCHANGED <<sessions, hist>>
    ELSE LET idx == NextIndex(sessions[sid].currentQuestion)
             n   == Len(QuizQuestions(sessions[sid].quiz))
             own == origin = sid /\ hist[sid].auto
             h1  == [hist[sid] EXCEPT !.auto = own,
                                      !.timeouts = IF own THEN @ + 1 ELSE 0]
         IN /\ sessions' = [sessions EXCEPT ![sid].currentQuestion = idx]
            /\ IF QuizFinished(idx, n)
                 \* socket.emit('finish-quiz'); return
                 THEN /\ timers' = tb
                      /\ out' = Append(pre, Emit(c, "finish-quiz", NoData))
                      /\ hist' = [hist EXCEPT ![sid] = [h1 EXCEPT !.finishSignals = @ + 1]]
                 ELSE /\ timers' = tb (+) One(Timer(c, sid, idx))
                      /\ out' = Append(pre, Broadcast(sockets[c].roomId, "next-question",
                                    QuestionData(QuestionAt(sessions[sid].quiz, idx), idx + 1, n,
                                                 QuizSettings(sessions[sid].quiz))))
                      /\ hist' = [hist EXCEPT ![sid] = h1]

\* a client asks for the next question on its own
ExplicitAdvance(c) ==
  /\ alive
  /\ sockets[c].connected
  /\ Receive("next-question", c)
  /\ NextQuestion(c, 0, timers, <<>>)
  /\ UNCHANGED <<activeQuizSessions, parts, sockets, pending, alive, questionStats, scoreRecords>>

\* The client's answer to the bare 'next-question' signal of a fired timer:
\* it sends the next-question request, which runs the handler.
ClientEcho(t) ==
  NextQuestion(t.conn, t.sid, timers (-) One(t), <<Emit(t.conn, "next-question", NoData)>>)

\* A timer fires: socket.emit('next-question') sends the signal to the
\* client of the socket that armed it; a closed socket drops the packet.
TimerFire(t) ==
  /\ alive
  /\ BagIn(t, timers)
  /\ IF sockets[t.conn].connected
       THEN ClientEcho(t)
       ELSE /\ timers' = timers (-) One(t)
            /\ out' = <<>>
            /\ UNCHANGED <<sessions, hist>>
  /\ UNCHANGED <<activeQuizSessions, parts, sockets, pending, alive, events, trace, questionStats, scoreRecords>>

\* ---------------------------------------------------------- submit-answer
\* what a client may send as questionId and selectedAnswer
SubmitQuestionIds == QuestionIds \cup {"qx"}

SubmitAnswers == {<<"P">>, <<"p">>, NotAString}

\* a guard that lets a submission through to an inactive session
SubmitAcceptedInactive(c) ==
  /\ SessionOf(c) # 0
  /\ PHas(sessions[SessionOf(c)].participants, c)

\* if (!session || !session.isActive) return; if (!participant) return
SubmitAccepted(c) ==
  /\ SessionOf(c) # 0
  /\ sessions[SessionOf(c)].isActive
  /\ PHas(sessions[SessionOf(c)].participants, c)

\* the handler up to `await Question.findById(questionId)`, or its return
\* before it (arrivedAt keeps, for the history, the session's currentQuestion
\* when the event came in)
SubmitBegin(c, questionId, selectedAnswer) ==
  /\ alive
  /\ sockets[c].connected
  /\ Receive("submit-answer", c)
  /\ pending' =
       IF SubmitAccepted(c)
         THEN LET sid == SessionOf(c) IN
              pending (+) One([Handler("submit", c) EXCEPT
                 !.sid = sid, !.pid = PGet(sessions[sid].participants, c),
                 !.questionId = questionId, !.selectedAnswer = selectedAnswer,
                 !.arrivedAt = sessions[sid].currentQuestion])
         ELSE pending
  /\ out' = <<>>
  /\ UNCHANGED <<activeQuizSessions, sessions, parts, sockets, timers, alive, hist, questionStats, scoreRecords>>

\* findById resolved with null (the handler returns), or the evaluation
\* threw (the catch block reports it): the participant is untouched
SubmitDropped(h) ==
  /\ alive
  /\ BagIn(h, pending) /\ h.kind = "submit" /\ h.stage = 1
  /\ IF FindQuestion(h.questionId) = NoQuestion
       THEN out' = <<>>
       ELSE /\ IsCorrect(FindQuestion(h.questionId), h.selectedAnswer) = "throws"
            /\ out' = <<Emit(h.conn, "error", [message |-> "Failed to submit answer"])>>
  /\ pending' = pending (-) One(h)
  /\ UNCHANGED <<activeQuizSessions, sessions, parts, sockets, timers, alive, events, hist, trace, questionStats, scoreRecords>>

\* an entry logged without its points being added to the score
RecordAnswerNoScore(participant, entry) ==
  [participant EXCEPT !.answers = Append(@, entry)]

\* an entry refused when the question has one in the log already
RecordAnswerOnce(participant, entry) ==
  IF \E i \in 1..Len(participant.answers) : participant.answers[i].question = entry.question
    THEN participant
    ELSE [participant EXCEPT !.answers = Append(@, entry), !.score = @ + entry.points]

\* participant.answers.push({...}); participant.score += points
RecordAnswer(participant, entry) ==
  [participant EXCEPT !.answers = Append(@, entry), !.score = @ + entry.points]

\* question.stats.totalAnswers += 1; if (isCorrect) question.stats.correctAnswers += 1
CountAnswer(stats, isCorrect) ==
  [totalAnswers |-> stats.totalAnswers + 1,
   correctAnswers |-> stats.correctAnswers + (IF isCorrect = "true" THEN 1 ELSE 0)]

\* findById resolved with the question: the answer is judged and recorded on
\* the participant object looked up before the await, the counters of the
\* loaded document are raised, and the handler awaits question.save()
\* (total keeps, for the history, the score right after the addition)
SubmitJudged(h) ==
  /\ alive
  /\ BagIn(h, pending) /\ h.kind = "submit" /\ h.stage = 1
  /\ LET question  == FindQuestion(h.questionId)
         isCorrect == IsCorrect(question, h.selectedAnswer)
         points    == Points(question, isCorrect)
         entry     == [question |-> h.questionId, selectedAnswer |-> h.selectedAnswer,
                       isCorrect |-> isCorrect, points |-> points]
         recorded  == RecordAnswer(parts[h.pid], entry)
     IN /\ question # NoQuestion
        /\ isCorrect # "throws"
        /\ parts' = [parts EXCEPT ![h.pid] = recorded]
        /\ pending' = (pending (-) One(h)) (+)
                        One([h EXCEPT !.stage = 2, !.isCorrect = isCorrect, !.points = points,
                                      !.total = recorded.score,
                                      !.stats = CountAnswer(questionStats[h.questionId], isCorrect)])
  /\ out' = <<>>
  /\ UNCHANGED <<activeQuizSessions, sessions, sockets, timers, alive, events, hist, trace, questionStats, scoreRecords>>

\* the correctAnswer field of answer-result ("" when find returns undefined)
RevealedAnswer(question) ==
  IF question.type = "fill-in-blank" THEN question.correctAnswer
  ELSE IF FindCorrect(question.options) = 0 THEN ""
  ELSE question.options[FindCorrect(question.options)].text

\* question.save() resolved: the counters are stored and answer-result goes
\* to the socket, with the score the participant object has by now
SubmitSaved(h) ==
  /\ alive
  /\ BagIn(h, pending) /\ h.kind = "submit" /\ h.stage = 2
  /\ questionStats' = [questionStats EXCEPT ![h.questionId] = h.stats]
  /\ out' = <<Emit(h.conn, "answer-result",
                   [isCorrect |-> h.isCorrect, points |-> h.points,
                    totalScore |-> parts[h.pid].score,
                    correctAnswer |-> RevealedAnswer(FindQuestion(h.questionId))])>>
  /\ pending' = pending (-) One(h)
  /\ UNCHANGED <<activeQuizSessions, sessions, parts, sockets, timers, alive, events, hist, trace, scoreRecords>>

\* question.save() rejected: the catch block reports the error
SubmitSaveFailed(h) ==
  /\ alive
  /\ BagIn(h, pending) /\ h.kind = "submit" /\ h.stage = 2
  /\ out' = <<Emit(h.conn, "error", [message |-> "Failed to submit answer"])>>
  /\ pending' = pending (-) One(h)
  /\ UNCHANGED <<activeQuizSessions, sessions, parts, sockets, timers, alive, events, hist, trace, questionStats, scoreRecords>>

\* ------------------------------------------------------------ leaderboard
\* session.quiz.questions.reduce((total, q) => total + q.points, 0)
RECURSIVE TotalPoints(_)
TotalPoints(questionIds) ==
  IF questionIds = <<>> THEN 0
  ELSE FindQuestion(Head(questionIds)).points + TotalPoints(Tail(questionIds))

\* The percentages of the scores a participant can reach within MaxEvents
\* events, computed once: the maxScore of each stored quiz with questions,
\* and every score up to MaxEvents times the largest of them.
MaxScores == {TotalPoints(QuizQuestions(q)) : q \in StoredQuizIds} \ {0}

Scores == 0..(MaxEvents * (CHOOSE m \in MaxScores : \A n \in MaxScores : n <= m))

PercentageTable == {<<s, m, Percentage(s, m)>> : s \in Scores, m \in MaxScores}

\* Math.round((score / maxScore) * 100), for maxScore > 0
PercentageOf(score, maxScore) ==
  (CHOOSE t \in PercentageTable : t[1] = score /\ t[2] = maxScore)[3]

\* Array.from(session.participants.values()): the participant objects in
\* insertion order
RECURSIVE PValues(_)
PValues(ps) == IF ps = <<>> THEN <<>> ELSE <<parts[Head(ps).p]>> \o PValues(Tail(ps))

\* an array left as it is
KeepOrder(entries) == entries

\* one more entry in an array sorted by non-increasing score: it goes
\* after the entries whose score is not smaller
InsertByScore(sorted, e) ==
  LET k == Cardinality({i \in 1..Len(sorted) : sorted[i].score >= e.score}) IN
  SubSeq(sorted, 1, k) \o <<e>> \o SubSeq(sorted, k + 1, Len(sorted))

\* .sort((a, b) => b.score - a.score); the sort is stable
RECURSIVE SortByScore(_)
SortByScore(entries) ==
  IF entries = <<>> THEN <<>>
  ELSE InsertByScore(SortByScore(SubSeq(entries, 1, Len(entries) - 1)), entries[Len(entries)])

\* .map(p => ({username, score, percentage})) of finish-quiz
RECURSIVE FinishEntries(_, _)
FinishEntries(values, maxScore) ==
  IF values = <<>> THEN <<>>
  ELSE <<[username |-> Head(values).username, score |-> Head(values).score,
          percentage |-> PercentageOf(Head(values).score, maxScore)]>>
       \o FinishEntries(Tail(values), maxScore)

\* the leaderboard of finish-quiz
FinishLeaderboard(values, maxScore) == SortByScore(FinishEntries(values, maxScore))

\* .map(p => ({username, score})) of get-leaderboard
RECURSIVE UpdateEntries(_)
UpdateEntries(values) ==
  IF values = <<>> THEN <<>>
  ELSE <<[username |-> Head(values).username, score |-> Head(values).score]>>
       \o UpdateEntries(Tail(values))

\* the leaderboard of get-leaderboard
LeaderboardUpdate(values) == SortByScore(UpdateEntries(values))

\* leaderboard.findIndex(p => p.username === username): from 0, -1 when
\* no entry has the name
FindIndex(leaderboard, username) ==
  LET hits == {i \in 1..Len(leaderboard) : leaderboard[i].username = username} IN
  IF hits = {} THEN -1 ELSE (CHOOSE i \in hits : \A j \in hits : i <= j) - 1

\* ---------------------------------------------------------- get-leaderboard
GetLeaderboard(c) ==
  /\ alive
  /\ sockets[c].connected
  /\ Receive("get-leaderboard", c)
  /\ out' = IF SessionOf(c) # 0
              THEN <<Emit(c, "leaderboard-update",
                          LeaderboardUpdate(PValues(sessions[SessionOf(c)].participants)))>>
              ELSE <<>>
  /\ UNCHANGED <<activeQuizSessions, sessions, parts, sockets, pending, timers, alive, hist,
                 questionStats, scoreRecords>>

\* ------------------------------------------------------------ finish-quiz
\* the handler up to `await Score.create(...)`: the arguments of the call
\* (score, maxScore) are taken before the suspension
FinishBegin(c) ==
  /\ alive
  /\ sockets[c].connected
  /\ Receive("finish-quiz", c)
  /\ pending' =
       \* if (!session) return; if (!participant) return
       IF SessionOf(c) # 0 /\ PHas(sessions[SessionOf(c)].participants, c)
         THEN LET sid == SessionOf(c)
                  pid == PGet(sessions[sid].participants, c)
              IN pending (+) One([Handler("finish", c) EXCEPT
                   !.sid = sid, !.pid = pid, !.score = parts[pid].score,
                   !.maxScore = TotalPoints(QuizQuestions(sessions[sid].quiz))])
         ELSE pending
  /\ out' = <<>>
  /\ UNCHANGED <<activeQuizSessions, sessions, parts, sockets, timers, alive, hist, questionStats, scoreRecords>>

\* the Score document of the call
NewScore(h) ==
  [participant |-> h.pid, quiz |-> sessions[h.sid].quiz, score |-> h.score,
   maxScore |-> h.maxScore, percentage |-> PercentageOf(h.score, h.maxScore)]

\* Score.create resolved: the document is stored; the handler now awaits
\* session.quiz.updateStats(). With maxScore 0 the percentage passed is
\* 0 / 0 = NaN, which the Number path of the Score schema does not accept:
\* the call is rejected (FinishFailed).
FinishSaved(h) ==
  /\ alive
  /\ BagIn(h, pending) /\ h.kind = "finish" /\ h.stage = 1
  /\ h.maxScore # 0
  /\ scoreRecords' = scoreRecords (+) One(NewScore(h))
  /\ pending' = (pending (-) One(h)) (+) One([h EXCEPT !.stage = 2])
  /\ out' = <<>>
  /\ UNCHANGED <<activeQuizSessions, sessions, parts, sockets, timers, alive, events, hist, trace, questionStats>>

\* a failure that takes the participant's progress back
FinishFailedRollback(h) ==
  /\ alive
  /\ BagIn(h, pending) /\ h.kind = "finish"
  /\ pending' = pending (-) One(h)
  /\ parts' = [parts EXCEPT ![h.pid] = [@ EXCEPT !.score = 0, !.answers = <<>>]]
  /\ out' = <<Emit(h.conn, "error", [message |-> "Failed to finish quiz"])>>
  /\ UNCHANGED <<activeQuizSessions, sessions, sockets, timers, alive, events, hist, trace, questionStats, scoreRecords>>

\* Score.create or updateStats rejected: the catch block reports the error
\* and the handler ends
FinishFailed(h) ==
  /\ alive
  /\ BagIn(h, pending) /\ h.kind = "finish"
  /\ pending' = pending (-) One(h)
  /\ out' = <<Emit(h.conn, "error", [message |-> "Failed to finish quiz"])>>
  /\ UNCHANGED <<activeQuizSessions, sessions, parts, sockets, timers, alive, events, hist, trace, questionStats, scoreRecords>>

\* the payload of quiz-completed, from the participant and session objects
\* looked up before the awaits as they are now
QuizCompleted(h) ==
  LET participant == parts[h.pid]
      leaderboard == FinishLeaderboard(PValues(sessions[h.sid].participants), h.maxScore)
  IN [finalScore |-> participant.score,
      maxScore |-> h.maxScore,
      percentage |-> PercentageOf(participant.score, h.maxScore),
      leaderboard |-> leaderboard,
      rank |-> FindIndex(leaderboard, participant.username) + 1]

\* updateStats resolved: results are sent, the participant is removed from
\* the session object looked up before the awaits, and the registry entry of
\* socket.roomId is deleted when that object has no participant left
FinishDone(h) ==
  /\ alive
  /\ BagIn(h, pending) /\ h.kind = "finish" /\ h.stage = 2
  /\ LET c  == h.conn
         ps == PDelete(sessions[h.sid].participants, c)
     IN /\ sessions' = [sessions EXCEPT ![h.sid].participants = ps]
        /\ activeQuizSessions' =
             IF Len(ps) = 0 /\ sockets[c].roomId # ""
               THEN [activeQuizSessions EXCEPT ![sockets[c].roomId] = 0]
               ELSE activeQuizSessions
  /\ pending' = pending (-) One(h)
  /\ out' = <<Emit(h.conn, "quiz-completed", QuizCompleted(h))>>
  /\ UNCHANGED <<parts, sockets, timers, alive, events, hist, trace, questionStats, scoreRecords>>

EngineNext ==
  \/ \E c \in Conns, q \in JoinQuizIds, u \in Names : JoinBegin(c, q, u)
  \/ \E h \in BagToSet(pending) : JoinNotFound(h)
  \/ \E h \in BagToSet(pending) : JoinResume(h)
  \/ \E c \in Conns : StartQuiz(c)
  \/ \E c \in Conns : ExplicitAdvance(c)
  \/ \E t \in BagToSet(timers) : TimerFire(t)
  \/ \E c \in Conns, q \in SubmitQuestionIds, a \in SubmitAnswers : SubmitBegin(c, q, a)
  \/ \E h \in BagToSet(pending) : SubmitDropped(h)
  \/ \E h \in BagToSet(pending) : SubmitJudged(h)
  \/ \E h \in BagToSet(pending) : SubmitSaved(h)
  \/ \E h \in BagToSet(pending) : SubmitSaveFailed(h)
  \/ \E c \in Conns : FinishBegin(c)
  \/ \E h \in BagToSet(pending) : FinishSaved(h)
  \/ \E h \in BagToSet(pending) : FinishFailed(h)
  \/ \E h \in BagToSet(pending) : FinishDone(h)
  \/ \E c \in Conns : GetLeaderboard(c)
  \/ \E c \in Conns : Disconnect(c)

Next == EngineNext /\ UNCHANGED eval

Spec == Init /\ [][Next]_vars

\* ------------------------------------------- the evaluation on its own
\* The question documents the schema's validation lets be stored:
\* multiple-choice with at least one option flagged correct, true-false with
\* exactly two options, fill-in-blank with a correctAnswer.
OptionTexts == {<<"P">>, <<"p">>}

OptionLists(n) == [1..n -> {Option(t, f) : t \in OptionTexts, f \in BOOLEAN}]

EvalQuestions ==
  {[type |-> "multiple-choice", question |-> "q?", options |-> os, correctAnswer |-> <<>>,
    timeLimit |-> 30, points |-> 10] :
     os \in {o \in OptionLists(1) \cup OptionLists(2) : \E i \in 1..Len(o) : o[i].isCorrect}}
  \cup {[type |-> "true-false", question |-> "q?", options |-> os, correctAnswer |-> <<>>,
         timeLimit |-> 30, points |-> 10] :
          os \in OptionLists(2)}
  \cup {[type |-> "fill-in-blank", question |-> "q?", options |-> <<>>, correctAnswer |-> t,
         timeLimit |-> 30, points |-> 10] :
          t \in Texts \ {<<>>}}

EvalAnswers == Texts \cup {NotAString}

EvalInit ==
  /\ EngineInit
  /\ eval \in [question : EvalQuestions, selectedAnswer : EvalAnswers, isCorrect : {""}]

\* lines 200-210 of submit-answer applied to the inputs
Evaluate ==
  /\ eval.isCorrect = ""
  /\ eval' = [eval EXCEPT !.isCorrect = IsCorrect(eval.question, eval.selectedAnswer)]
  /\ UNCHANGED engine

EvalSpec == EvalInit /\ [][Evaluate]_vars

\* --------------------------------------- the progression on its own
\* Two quizzes side by side that differ at most in which options are flagged
\* correct and in the fill-in-blank correctAnswer, taken through the same
\* start-quiz and next-question events.
PayloadQuestions ==
  {q \in EvalQuestions : q.type = "fill-in-blank" => Len(q.correctAnswer) = 1}

SameButAnswers(q, t) ==
  /\ q.type = t.type /\ q.question = t.question
  /\ q.timeLimit = t.timeLimit /\ q.points = t.points
  /\ Len(q.options) = Len(t.options)
  /\ \A i \in 1..Len(q.options) : q.options[i].text = t.options[i].text

Twins == {qt \in PayloadQuestions \X PayloadQuestions : SameButAnswers(qt[1], qt[2])}

PayloadInit ==
  /\ EngineInit
  /\ eval \in [questions : [1..1 -> Twins] \cup [1..2 -> Twins],
                isActive : {FALSE}, currentQuestion : {0}, sent : {<<>>}]

\* questionData of the question at index idx, for either quiz
BothPayloads(idx) ==
  LET n == Len(eval.questions) IN
  <<QuestionData(eval.questions[idx + 1][1], idx + 1, n, QuizSettings("qa")),
    QuestionData(eval.questions[idx + 1][2], idx + 1, n, QuizSettings("qa"))>>

\* start-quiz on both
PayloadStart ==
  /\ ~eval.isActive
  /\ eval' = [eval EXCEPT !.isActive = TRUE, !.currentQuestion = 0, !.sent = BothPayloads(0)]
  /\ UNCHANGED engine

\* next-question on both
PayloadAdvance ==
  /\ eval.isActive
  /\ eval.currentQuestion < Len(eval.questions)
  /\ LET idx == NextIndex(eval.currentQuestion) IN
       eval' = [eval EXCEPT !.currentQuestion = idx,
                            !.sent = IF QuizFinished(idx, Len(eval.questions))
                                       THEN <<NoData, NoData>>
                                       ELSE BothPayloads(idx)]
  /\ UNCHANGED engine

PayloadSpec == PayloadInit /\ [][PayloadStart \/ PayloadAdvance]_vars

\* ---------------------------------------- the leaderboard on its own
\* The participants of a session, in insertion order, with the display
\* names and scores they can have; both handlers build their leaderboard.
MaxParticipants == 3

BoardScores == {0} \cup {FindQuestion(q).points : q \in QuestionIds} \cup MaxScores

BoardParticipants == [username : {"ann", "bob"}, score : BoardScores]

BoardInit ==
  /\ EngineInit
  /\ eval \in [participants : UNION {[1..n -> BoardParticipants] : n \in 0..MaxParticipants},
                maxScore : MaxScores, handler : {""}, leaderboard : {<<>>}]

\* lines 307-313 of finish-quiz
BoardFinish ==
  /\ eval.handler = ""
  /\ eval' = [eval EXCEPT !.handler = "finish-quiz",
                          !.leaderboard = FinishLeaderboard(eval.participants, eval.maxScore)]
  /\ UNCHANGED engine

\* lines 343-348 of get-leaderboard
BoardGet ==
  /\ eval.handler = ""
  /\ eval' = [eval EXCEPT !.handler = "get-leaderboard",
                          !.leaderboard = LeaderboardUpdate(eval.participants)]
  /\ UNCHANGED engine

BoardSpec == BoardInit /\ [][BoardFinish \/ BoardGet]_vars

\* the handlers in flight finish, and an armed timer fires
FairSpec ==
  /\ Spec
  /\ WF_vars(UNCHANGED eval /\ \E t \in BagToSet(timers) : TimerFire(t))
  /\ WF_vars(UNCHANGED eval /\ \E h \in BagToSet(pending) :
               JoinNotFound(h) \/ JoinResume(h) \/ SubmitDropped(h) \/ SubmitJudged(h)
               \/ SubmitSaved(h) \/ FinishSaved(h) \/ FinishDone(h))

\* ================================================================ claims
NumQuestions(sid) == Len(QuizQuestions(sessions[sid].quiz))

SessIds == 1..Len(sessions)

Registered == {activeQuizSessions[r] : r \in RoomIds} \ {0}

\* C1: a timer armed for question i that fires after the session has already
\* moved past i does not change currentQuestion.
C1_StaleTimerDoesNotAdvance ==
  [][\A t \in BagToSet(timers) :
       (TimerFire(t) /\ sessions[t.sid].currentQuestion > t.idx)
         => sessions'[t.sid].currentQuestion = sessions[t.sid].currentQuestion]_vars

C3_EventuallyFinished ==
  \A sid \in 1..MaxEvents :
    [](  (sid \in SessIds /\ sessions[sid].isActive)
      => <>(\/ ~alive
            \/ sid \in SessIds /\ sessions[sid].participants = <<>>
            \/ sid \in SessIds /\ hist[sid].finishSignals > 0))

\* C4: a registered active session has currentQuestion < number of questions.
C4_IndexInBounds ==
  \A sid \in Registered :
    sessions[sid].isActive => sessions[sid].currentQuestion < NumQuestions(sid)

\* C5: currentQuestion of a registered session never decreases.
C5_IndexMonotone ==
  [][\A sid \in Registered :
       sid \in {activeQuizSessions'[r] : r \in RoomIds}
         => sessions'[sid].currentQuestion >= sessions[sid].currentQuestion]_vars

\* C6: when only joins have happened, each room has had at most one session
\* created, and every connection whose join completed is a participant of
\* the session registered for its room.
SessionsOfQuiz(quizId) == {sid \in SessIds : sessions[sid].quiz = quizId}

C6_JoinIdempotent ==
  trace.joinsOnly =>
    /\ \A q \in StoredQuizIds : Cardinality(SessionsOfQuiz(q)) <= 1
    /\ \A c \in Conns :
         sockets[c].roomId # "" =>
           /\ SessionOf(c) # 0
           /\ PHas(sessions[SessionOf(c)].participants, c)
    /\ \A sid \in SessIds : sid \in Registered

C6_Witness ==
  /\ trace.joinsOnly /\ trace.interleaved
  /\ pending = EmptyBag
  /\ \E sid \in Registered : PIds(sessions[sid].participants) = Conns

\* C7: a handler removes a session from the registry only when that session
\* has no participant left.
C7_RemovedOnlyWhenEmpty ==
  [][\A r \in RoomIds :
       (alive' /\ activeQuizSessions[r] # 0 /\ activeQuizSessions'[r] # activeQuizSessions[r])
         => sessions'[activeQuizSessions[r]].participants = <<>>]_vars

\* C8: with no handler suspended, every registered session has a participant.
C8_RegisteredNonEmpty ==
  pending = EmptyBag =>
    \A sid \in Registered : sessions[sid].participants # <<>>

\* C9: a join that arrives at a room all of whose participants have
\* disconnected, and completes there, yields a fresh session: inactive, currentQuestion 0, no startTime, and the joiner
\* as its only participant, with score 0.
C9_FreshAfterLastDisconnect ==
  [][\A h \in BagToSet(pending) :
       (JoinResume(h) /\ h.deserted /\ RoomDeserted(RoomId(h.quizId)))
         => LET s == sessions'[activeQuizSessions'[RoomId(h.quizId)]] IN
            /\ ~s.isActive
            /\ s.currentQuestion = 0
            /\ ~s.startTime
            /\ PIds(s.participants) = {h.conn}
            /\ parts'[PGet(s.participants, h.conn)].score = 0]_vars


\* C10: a multiple-choice or true-false answer is judged correct exactly when
\* it equals, character for character, the text of an option flagged correct.
FlaggedTexts(question) ==
  {question.options[i].text : i \in {j \in 1..Len(question.options) : question.options[j].isCorrect}}

C10_ExactMatch ==
  (eval.isCorrect # "" /\ eval.question.type \in {"multiple-choice", "true-false"})
    => (eval.isCorrect = "true" <=> eval.selectedAnswer \in FlaggedTexts(eval.question))

\* C11: a fill-in-blank answer that is a text is judged correct exactly when
\* it and the stored correctAnswer are the same text once surrounding blanks
\* are dropped and capitals are read as small letters; " p " is correct for "P".
Unblanked(s) ==
  LET inked == {i \in 1..Len(s) : s[i] # " "} IN
  IF inked = {} THEN <<>>
  ELSE SubSeq(s, CHOOSE i \in inked : \A j \in inked : i <= j,
                 CHOOSE i \in inked : \A j \in inked : i >= j)

SameLetter(a, b) == a = b \/ {a, b} = {"P", "p"}

SameAnswer(s, t) ==
  LET u == Unblanked(s)
      v == Unblanked(t)
  IN Len(u) = Len(v) /\ \A i \in 1..Len(u) : SameLetter(u[i], v[i])

C11_FillInBlank ==
  (eval.isCorrect # "" /\ eval.question.type = "fill-in-blank" /\ eval.selectedAnswer \in Texts)
    => (eval.isCorrect = "true" <=> SameAnswer(eval.selectedAnswer, eval.question.correctAnswer))

C11_Witness ==
  /\ eval.question.type = "fill-in-blank"
  /\ eval.question.correctAnswer = <<"P">>
  /\ eval.selectedAnswer = <<" ", "p", " ">>
  /\ eval.isCorrect = "true"

\* C12: an accepted submission awards the question's points when the answer
\* is correct and 0 otherwise, adds the award to the score of the submitter's
\* participant in the session and to no other participant's, and its
\* answer-result reports as totalScore the score right after that addition.
Award(h) ==
  LET question == FindQuestion(h.questionId) IN
  IF IsCorrect(question, h.selectedAnswer) = "true" THEN question.points ELSE 0

Submitter(h) == PGet(sessions[h.sid].participants, h.conn)

C12_AwardAndReport ==
  [][\A h \in BagToSet(pending) :
       /\ SubmitJudged(h) =>
            /\ Submitter(h) # 0 =>
                 parts'[Submitter(h)].score = parts[Submitter(h)].score + Award(h)
            /\ \A sid \in SessIds : \A c \in PIds(sessions[sid].participants) :
                 LET o == PGet(sessions[sid].participants, c) IN
                 o \notin {Submitter(h), h.pid} => parts'[o].score = parts[o].score
       /\ SubmitSaved(h) =>
            \E i \in 1..Len(out') :
               /\ out'[i].to = <<"socket", h.conn>>
               /\ out'[i].event = "answer-result"
               /\ out'[i].data.points = h.points
               /\ out'[i].data.totalScore = h.total]_vars

\* C13: in every reachable state the score of every participant is the sum
\* of the points of the entries of its answer log.
RECURSIVE SumPoints(_)
SumPoints(answers) ==
  IF answers = <<>> THEN 0 ELSE Head(answers).points + SumPoints(Tail(answers))

C13_ScoreIsSum ==
  \A pid \in 1..Len(parts) : parts[pid].score = SumPoints(parts[pid].answers)

C13_Witness ==
  \E sid \in Registered : \E c \in PIds(sessions[sid].participants) :
    LET p == parts[PGet(sessions[sid].participants, c)] IN
    /\ Len(p.answers) = 2
    /\ p.answers[1].points # p.answers[2].points
    /\ p.score > 0

\* C14: a submit-answer received when the room has no session, the session
\* is inactive or the connection is no participant of it, and one whose
\* question is not found, is a silent no-op: no score or answer log changes,
\* no analytics counter is raised, nothing is emitted, and (in the first
\* three cases) the handler does not go on.
NothingRecorded ==
  /\ parts' = parts
  /\ questionStats' = questionStats
  /\ \A i \in 1..Len(out') : out'[i].event \notin {"answer-result", "error"}

PositionOf(quizId, questionId) ==
  LET qs == QuizQuestions(quizId) IN
  IF \E i \in 1..Len(qs) : qs[i] = questionId
    THEN (CHOOSE i \in 1..Len(qs) : qs[i] = questionId) - 1
    ELSE -1

ArrivedStale(h) ==
  /\ h.kind = "submit"
  /\ PositionOf(sessions[h.sid].quiz, h.questionId) >= 0
  /\ PositionOf(sessions[h.sid].quiz, h.questionId) < h.arrivedAt

C15_StaleSubmitSwallowed ==
  [][\A h \in BagToSet(pending) :
       (ArrivedStale(h) /\ alive' /\ CopiesIn(h, pending') < CopiesIn(h, pending))
         => /\ parts' = parts
            /\ \A i \in 1..Len(out') : out'[i].event # "error"]_vars

\* C16: one submission per question is not enforced: when a participant whose
\* log already holds a correct entry for a question submits the same correct
\* answer again, the log gains one more entry for it and the score rises by
\* the question's points once more (two entries, twice the points).
AnsweredCorrectly(p, questionId, selectedAnswer) ==
  \E i \in 1..Len(p.answers) :
     /\ p.answers[i].question = questionId
     /\ p.answers[i].selectedAnswer = selectedAnswer
     /\ p.answers[i].isCorrect = "true"

C16_DoubleSubmitCounts ==
  [][\A h \in BagToSet(pending) :
       ( /\ h.kind = "submit" /\ h.stage = 1
         /\ AnsweredCorrectly(parts[h.pid], h.questionId, h.selectedAnswer)
         /\ alive' /\ CopiesIn(h, pending') < CopiesIn(h, pending) )
         => /\ Len(parts'[h.pid].answers) = Len(parts[h.pid].answers) + 1
            /\ parts'[h.pid].answers[Len(parts'[h.pid].answers)].question = h.questionId
            /\ parts'[h.pid].score = parts[h.pid].score + FindQuestion(h.questionId).points]_vars

C16_Witness ==
  \E sid \in Registered : \E c \in PIds(sessions[sid].participants) :
    LET p == parts[PGet(sessions[sid].participants, c)] IN
    /\ sessions[sid].isActive
    /\ Len(p.answers) = 2
    /\ p.answers[1] = p.answers[2]
    /\ p.answers[1].isCorrect = "true"
    /\ p.score = 2 * FindQuestion(p.answers[1].question).points

\* C17: at any time at most one auto-advance timer of a session is armed and
\* able to fire.
C17_OneTimerPerSession ==
  \A sid \in SessIds :
    /\ Cardinality({t \in BagToSet(timers) : t.sid = sid}) <= 1
    /\ \A t \in BagToSet(timers) : t.sid = sid => CopiesIn(t, timers) = 1

\* C18: a next-question run for a connection whose room has no session or an
\* inactive one changes nothing; otherwise currentQuestion rises by exactly 1
\* and then, if the new index is in bounds, the room is sent the question at
\* that index (numbered index + 1), and if not, the connection is sent the
\* finish signal and no question payload goes out.
AdvanceRuns(c) ==
  \/ ExplicitAdvance(c)
  \/ \E t \in BagToSet(timers) : t.conn = c /\ sockets[c].connected /\ TimerFire(t)

QuestionSent(roomId, event, quizId, idx) ==
  \E i \in 1..Len(out') :
     /\ out'[i].to = <<"room", roomId>>
     /\ out'[i].event = event
     /\ out'[i].data.questionNumber = idx + 1
     /\ out'[i].data.totalQuestions = Len(QuizQuestions(quizId))
     /\ out'[i].data.question = FindQuestion(QuizQuestions(quizId)[idx + 1]).question

NoQuestionSent ==
  \A i \in 1..Len(out') : out'[i].to[1] = "socket" /\ out'[i].data = NoData

C18_AdvanceContract ==
  [][\A c \in Conns :
       AdvanceRuns(c) =>
         IF SessionOf(c) = 0 \/ ~sessions[SessionOf(c)].isActive
           THEN sessions' = sessions /\ hist' = hist /\ NoQuestionSent
                /\ \A i \in 1..Len(out') : out'[i].event # "finish-quiz"
           ELSE LET sid == SessionOf(c)
                    idx == sessions[sid].currentQuestion + 1
                IN /\ sessions'[sid].currentQuestion = idx
                   /\ IF idx < NumQuestions(sid)
                        THEN QuestionSent(sockets[c].roomId, "next-question",
                                          sessions[sid].quiz, idx)
                        ELSE /\ NoQuestionSent
                             /\ \E i \in 1..Len(out') :
                                   out'[i] = Emit(c, "finish-quiz", NoData)]_vars

C18_Witness ==
  \E c \in Conns :
    /\ trace.last = [event |-> "next-question", conn |-> c]
    /\ SessionOf(c) # 0
    /\ sessions[SessionOf(c)].currentQuestion = 2
    /\ out = <<Emit(c, "finish-quiz", NoData)>>

\* C19: a start-quiz run for a connection whose room has no session changes
\* nothing; otherwise the session is active with currentQuestion 0 afterwards,
\* the room has been sent question number 1 of totalQuestions, and every
\* participant, score and answer log is as before.
C19_StartContract ==
  [][\A c \in Conns :
       StartQuiz(c) =>
         IF SessionOf(c) = 0
           THEN sessions' = sessions /\ parts' = parts /\ timers' = timers /\ out' = <<>>
           ELSE LET sid == SessionOf(c) IN
                /\ alive'
                /\ sessions'[sid].isActive
                /\ sessions'[sid].currentQuestion = 0
                /\ QuestionSent(sockets[c].roomId, "quiz-started", sessions[sid].quiz, 0)
                /\ sessions'[sid].participants = sessions[sid].participants
                /\ parts' = parts]_vars

\* C20: two quizzes that differ only in which options are flagged correct
\* and in the fill-in-blank correctAnswer produce the same quiz-started and
\* next-question payloads under the same events.
C20_PayloadsHideAnswers ==
  eval.sent # <<>> => eval.sent[1] = eval.sent[2]

C20_Witness ==
  /\ eval.sent # <<>>
  /\ eval.currentQuestion = 1
  /\ Len(eval.questions) = 2
  /\ eval.questions[2][1].options # eval.questions[2][2].options
  /\ eval.sent[1].options = <<[text |-> <<"P">>], [text |-> <<"p">>]>>
  /\ eval.sent[1] = eval.sent[2]

\* ---------------------------------------------------------------- C21
\* the connections of the participants of a session object with their
\* scores, in insertion order
RECURSIVE IdEntries(_)
IdEntries(ps) ==
  IF ps = <<>> THEN <<>>
  ELSE <<[id |-> Head(ps).id, score |-> parts[Head(ps).p].score]>> \o IdEntries(Tail(ps))

\* whose entry stands at each position of the leaderboard of a session object
BoardOwners(sid) == SortByScore(IdEntries(sessions[sid].participants))

\* C21: the rank that finish reports is the finisher's own 1-based position
\* in the leaderboard of the participants present at that instant: it lies
\* between 1 and the length of the leaderboard, and the entry at that
\* position is the finisher's.
C21_RankIsOwnPosition ==
  [][\A h \in BagToSet(pending) : FinishDone(h) =>
       LET rank == out'[1].data.rank IN
       /\ rank \in 1..Len(BoardOwners(h.sid))
       /\ BoardOwners(h.sid)[rank].id = h.conn]_vars

\* ---------------------------------------------------------------- C22
\* the sum of the point values of the first n questions of a quiz
RECURSIVE PointsUpTo(_, _)
PointsUpTo(quizId, n) ==
  IF n = 0 THEN 0 ELSE PointsUpTo(quizId, n - 1) + QuestionAt(quizId, n - 1).points

\* 100 * score / maxScore rounded to the nearest integer
PercentageExact(score, maxScore) == (200 * score + maxScore) \div (2 * maxScore)

\* C22: finish reports maxScore equal to the sum of the point values of all
\* questions of the session's quiz, finalScore equal to the finisher's
\* score, and, for the finisher and for every leaderboard entry,
\* percentage = round(100 * score / maxScore).
C22_ResultNumbers ==
  [][\A h \in BagToSet(pending) : FinishDone(h) =>
       LET d == out'[1].data IN
       /\ d.maxScore = PointsUpTo(sessions[h.sid].quiz, NumQuestions(h.sid))
       /\ d.finalScore = parts[h.pid].score
       /\ d.percentage = PercentageExact(d.finalScore, d.maxScore)
       /\ \A i \in 1..Len(d.leaderboard) :
            d.leaderboard[i].percentage = PercentageExact(d.leaderboard[i].score, d.maxScore)]_vars

\* ---------------------------------------------------------------- C23
\* the entries of a participant map other than that of connection c
Others(ps, c) == SelectSeq(ps, LAMBDA e : e.id # c)

\* the question index and the activity of every session object
Progress == [sid \in SessIds |-> <<sessions[sid].currentQuestion, sessions[sid].isActive>>]

\* the connection has no participant to finish for
NothingToFinish(c) ==
  SessionOf(c) = 0 \/ ~PHas(sessions[SessionOf(c)].participants, c)

\* C23: a successful finish removes exactly the finishing participant from
\* the session and leaves every other participant's score and answer log,
\* the question index and isActive unchanged; finish is a no-op when the room
\* has no session or the connection has no participant.
C23_FinishFrame ==
  [][/\ \A h \in BagToSet(pending) : FinishDone(h) =>
          /\ sessions'[h.sid].participants = Others(sessions[h.sid].participants, h.conn)
          /\ \A sid \in SessIds \ {h.sid} :
               sessions'[sid].participants = sessions[sid].participants
          /\ parts' = parts
          /\ Progress' = Progress
     /\ \A c \in Conns : FinishBegin(c) /\ NothingToFinish(c) =>
          /\ UNCHANGED <<activeQuizSessions, sessions, parts, pending, timers,
                         questionStats, scoreRecords>>
          /\ out' = <<>>]_vars

\* a finish has completed and left the other participant of the session in it
C23_Witness ==
  /\ out # <<>> /\ out[1].event = "quiz-completed"
  /\ Len(out[1].data.leaderboard) = 2
  /\ \E sid \in SessIds : Len(sessions[sid].participants) = 1

\* ---------------------------------------------------------------- C24
\* registry, session objects and participant objects stay as they are
MemoryUnchanged == UNCHANGED <<activeQuizSessions, sessions, parts>>

\* C24: when persisting the final result fails during finish, the finisher
\* receives an error and the in-memory state is not altered: no step of the
\* failing handler changes a participant's score or answer log, the
\* question index or isActive.
C24_FailureKeepsState ==
  [][/\ \A c \in Conns : FinishBegin(c) => MemoryUnchanged
     /\ \A h \in BagToSet(pending) :
          /\ FinishSaved(h) => MemoryUnchanged
          /\ FinishFailed(h) =>
               /\ MemoryUnchanged
               /\ \E i \in 1..Len(out') :
                    out'[i].event = "error" /\ out'[i].to = <<"socket", h.conn>>]_vars

\* a finish has failed for a participant who has scored, and the participant
\* is in the session with that score
C24_Witness ==
  /\ out # <<>> /\ out[1].event = "error"
  /\ out[1].data.message = "Failed to finish quiz"
  /\ \E sid \in SessIds :
       /\ PHas(sessions[sid].participants, out[1].to[2])
       /\ parts[PGet(sessions[sid].participants, out[1].to[2])].score > 0

\* ---------------------------------------------------------------- C25
\* C25: when persisting the final result fails during finish, the finishing
\* participant still receives the result (quiz-completed) in addition to
\* the error.
C25_ResultDespiteFailure ==
  [][\A h \in BagToSet(pending) : FinishFailed(h) =>
       \E i \in 1..Len(out') :
         out'[i].event = "quiz-completed" /\ out'[i].to = <<"socket", h.conn>>]_vars

\* ---------------------------------------------------------------- C26
\* C26: result persistence is at-most-once: for one participant of one
\* session run at most one final result record is written, whatever the
\* sequence and interleaving of finish events from that connection.
C26_AtMostOneRecord ==
  \A r \in BagToSet(scoreRecords) :
    /\ CopiesIn(r, scoreRecords) = 1
    /\ \A q \in BagToSet(scoreRecords) : q.participant = r.participant => q = r

\* ---------------------------------------------------------------- C27
\* the ways to place n participants on n positions
Placements(n) == {f \in [1..n -> 1..n] : \A i, j \in 1..n : f[i] = f[j] => i = j}

\* C27: the leaderboard of finish and of get-leaderboard has exactly one
\* entry per participant in the session, is ordered by non-increasing score,
\* and participants with equal scores appear in their join order.
C27_Leaderboard ==
  eval.handler # "" =>
    LET ps == eval.participants
        lb == eval.leaderboard
        n  == Len(ps)
    IN /\ Len(lb) = n
       /\ \A i, j \in 1..n : i < j => lb[i].score >= lb[j].score
       /\ \E f \in Placements(n) :
            /\ \A i \in 1..n : /\ lb[f[i]].username = ps[i].username
                                /\ lb[f[i]].score = ps[i].score
            /\ \A i, j \in 1..n : i < j /\ ps[i].score = ps[j].score => f[i] < f[j]

\* a leaderboard was built of three participants, the first with less than
\* the second, the second and third level with different names
C27_Witness ==
  /\ eval.handler = "finish-quiz"
  /\ Len(eval.participants) = 3
  /\ eval.participants[1].score < eval.participants[2].score
  /\ eval.participants[2].score = eval.participants[3].score
  /\ eval.participants[2].username # eval.participants[3].username

\* ---------------------------------------------------------------- C28
\* C28: a join with a quiz that does not exist fails with an error sent to
\* the joiner only and changes nothing: no session is created, no
\* participant is added to any session, and the connection is not
\* associated with the room.
C28_JoinNotFound ==
  [][/\ \A c \in Conns, q \in JoinQuizIds \ StoredQuizIds, u \in Names :
          JoinBegin(c, q, u) => UNCHANGED <<activeQuizSessions, sessions, parts, sockets>>
     /\ \A h \in BagToSet(pending) : JoinNotFound(h) =>
          /\ Len(out') = 1
          /\ out'[1].event = "error" /\ out'[1].to = <<"socket", h.conn>>
          /\ UNCHANGED <<activeQuizSessions, sessions, parts, sockets>>]_vars

\* a join has failed for a connection that is in no room, while a session
\* with a participant exists
C28_Witness ==
  /\ out # <<>> /\ out[1].event = "error"
  /\ out[1].data.message = "Quiz not found"
  /\ sockets[out[1].to[2]].roomId = ""
  /\ \E sid \in SessIds : Len(sessions[sid].participants) > 0

\* ---------------------------------------------------------------- C29
\* the participants of the room's session, none when it has no session
RoomParticipants(roomId) ==
  IF activeQuizSessions[roomId] = 0 THEN <<>>
  ELSE sessions[activeQuizSessions[roomId]].participants

\* C29: join inserts the connection's participant with score 0 and an empty
\* answer log; a join by a connection that already has a participant in that
\* session overwrites it without changing the participant count; the
\* participantCount sent in user-joined and quiz-joined is the size of the
\* participant set after the insert.
C29_JoinInserts ==
  [][\A h \in BagToSet(pending) : JoinResume(h) =>
       LET before == RoomParticipants(RoomId(h.quizId))
           after  == RoomParticipants(RoomId(h.quizId))'
       IN /\ PHas(after, h.conn)
          /\ parts'[PGet(after, h.conn)].score = 0
          /\ parts'[PGet(after, h.conn)].answers = <<>>
          /\ Len(after) = IF PHas(before, h.conn) THEN Len(before) ELSE Len(before) + 1
          /\ \E i \in 1..Len(out') : out'[i].event = "user-joined"
          /\ \E i \in 1..Len(out') : out'[i].event = "quiz-joined"
          /\ \A i \in 1..Len(out') : out'[i].data.participantCount = Len(after)]_vars

\* a connection that had scored has joined again: its participant is a new
\* object without points, the only one of the session
C29_Witness ==
  /\ out # <<>> /\ out[Len(out)].event = "quiz-joined"
  /\ Len(parts) = 2 /\ parts[1].score > 0
  /\ \E sid \in SessIds :
       /\ Len(sessions[sid].participants) = 1
       /\ sessions[sid].participants[1].p = 2

\* ---------------------------------------------------------------- C30
\* C30: the disconnect of a connection that belongs to a room removes
\* exactly that connection's participant from the room's session, sends
\* user-left with the reduced count to the remaining room, writes no result
\* record, and leaves the other participants' scores, the question index
\* and isActive unchanged.
C30_DisconnectFrame ==
  [][\A c \in Conns : Disconnect(c) /\ SessionOf(c) # 0 =>
       LET sid == SessionOf(c) IN
       /\ sessions'[sid].participants = Others(sessions[sid].participants, c)
       /\ \A s \in SessIds \ {sid} : sessions'[s].participants = sessions[s].participants
       /\ parts' = parts
       /\ Progress' = Progress
       /\ scoreRecords' = scoreRecords
       /\ Len(out') = 1
       /\ out'[1].event = "user-left"
       /\ out'[1].to = <<"others", sockets[c].roomId, c>>
       /\ out'[1].data.participantCount = Len(Others(sessions[sid].participants, c))]_vars

\* a participant has left by disconnect a session in which another remains
C30_Witness ==
  /\ out # <<>> /\ out[1].event = "user-left"
  /\ out[1].data.participantCount = 1
  /\ \E sid \in SessIds :
       /\ out[1].to[3] \in hist[sid].left
       /\ Len(sessions[sid].participants) = 1

\* ---------------------------------------------------------------- C31
\* a handler of the connection is suspended
Busy(c) == \E h \in BagToSet(pending) : h.conn = c

\* C31: once a connection has disconnected and its pending handlers have
\* completed, no registered session contains a participant for it (so that
\* after all connections have disconnected the registry is empty).
C31_ParticipantsConnected ==
  \A sid \in Registered :
    \A c \in PIds(sessions[sid].participants) : sockets[c].connected \/ Busy(c)

\* ---------------------------------------------------------------- C32
\* the registered sessions in which the connection has a participant
SessionsWith(c) == {sid \in Registered : PHas(sessions[sid].participants, c)}

\* C32: a connection is a participant of at most one session at any time:
\* when a connection that joined room A joins room B, it no longer has a
\* participant in the session of A.
C32_OneSessionPerConnection ==
  \A c \in Conns : Cardinality(SessionsWith(c)) <= 1

\* ---------------------------------------------------------------- C33
\* the registry entry of every room but r, the session object registered
\* there and its participants' objects are as before
OtherRoomsUntouched(r) ==
  \A o \in RoomIds \ {r} :
    /\ activeQuizSessions'[o] = activeQuizSessions[o]
    /\ activeQuizSessions[o] # 0 =>
         LET sid == activeQuizSessions[o] IN
         /\ sessions'[sid] = sessions[sid]
         /\ \A i \in 1..Len(sessions[sid].participants) :
              parts'[sessions[sid].participants[i].p] = parts[sessions[sid].participants[i].p]

\* the handler, bound to a session, takes a step
Resumes(h) ==
  \/ SubmitDropped(h) \/ SubmitJudged(h) \/ SubmitSaved(h) \/ SubmitSaveFailed(h)
  \/ FinishSaved(h) \/ FinishFailed(h) \/ FinishDone(h)

\* C33: room isolation: an event handled for a connection whose session is
\* in room R never mutates or removes the session registered for another
\* room, also when the connection joins another room while its finish for R
\* is suspended at the persistence await.
C33_RoomIsolation ==
  [][\A h \in BagToSet(pending) : (h.sid # 0 /\ Resumes(h)) =>
       OtherRoomsUntouched(RoomId(sessions[h.sid].quiz))]_vars

\* ---- C34

SessionParts(sid) ==
  {sessions[sid].participants[i].p : i \in 1..Len(sessions[sid].participants)}

\* C34: in every reachable state each participant's score is at most
\* maxScore, the sum of the points of the questions of the session's quiz,
\* whatever submit-answer events arrived (repeated ones, ones naming a
\* question outside the quiz), so that every percentage lies in 0..100.
C34_ScoreAtMostMaxScore ==
  \A sid \in SessIds : \A p \in SessionParts(sid) :
    parts[p].score <= PointsUpTo(sessions[sid].quiz, NumQuestions(sid))

\* ---- C35

\* C35: the finalScore sent to the finisher in quiz-completed equals the
\* score written in the result record persisted by that finish, also when a
\* submit-answer of the same connection, suspended at its question lookup,
\* resumes while the finish is awaiting the persistence write.
C35_FinalScoreIsRecorded ==
  [][\A h \in BagToSet(pending) : FinishDone(h) =>
       /\ BagIn(NewScore(h), scoreRecords)
       /\ out'[1].data.finalScore = NewScore(h).score]_vars

\* ---- C36

Finished(sid) == hist[sid].finishSignals > 0

\* no submit-answer changes a score or an answer log of the session
ScoresFrozen(sid) == \A p \in SessionParts(sid) : parts'[p] = parts[p]

\* no advance moves the index or emits another finish signal
IndexFrozen(sid) ==
  /\ sessions'[sid].currentQuestion <= sessions[sid].currentQuestion
  /\ hist'[sid].finishSignals = hist[sid].finishSignals

\* C36: once a session has advanced past its last question (the finish
\* signal has been emitted), no submit-answer changes a participant's score
\* or answer log, and no further advance changes currentQuestion or emits
\* another finish signal.
C36_FinishedSessionFrozen ==
  [][\A sid \in SessIds : Finished(sid) => ScoresFrozen(sid) /\ IndexFrozen(sid)]_vars

\* ---- C37

\* ------------------------------------------ a quiz that is already running
\* The engine from the state it is in once connection c1 has joined quiz qa
\* and sent start-quiz: the room has its first session, active at question
\* 0, and the timer of start-quiz is armed. RunningEvents more events are
\* received from here on.
RunningEvents == 3

RunningInit ==
  /\ activeQuizSessions = [r \in RoomIds |-> IF r = RoomId("qa") THEN 1 ELSE 0]
  /\ sessions = <<[NewSession("qa") EXCEPT !.participants = PSet(<<>>, "c1", 1),
                                           !.isActive = TRUE, !.startTime = TRUE]>>
  /\ parts = <<NewParticipant("ann")>>
  /\ sockets = [c \in Conns |->
                  [connected |-> TRUE, roomId |-> IF c = "c1" THEN RoomId("qa") ELSE ""]]
  /\ pending = EmptyBag
  /\ timers = One(Timer("c1", 1, 0))
  /\ alive = TRUE
  /\ events = MaxEvents - RunningEvents
  /\ hist = <<[NewHist EXCEPT !.started = TRUE]>>
  /\ trace = [joinsOnly |-> FALSE, interleaved |-> FALSE,
              last |-> [event |-> "start-quiz", conn |-> "c1"]]
  /\ out = <<Broadcast(RoomId("qa"), "quiz-started",
                       QuestionData(QuestionAt("qa", 0), 1, Len(QuizQuestions("qa")),
                                    QuizSettings("qa")))>>
  /\ questionStats = [q \in QuestionIds |-> NoStats]
  /\ scoreRecords = EmptyBag
  /\ eval = NoEval

RunningSpec == RunningInit /\ [][Next]_vars

\* the registered sessions of the room of session sid, other than sid
LaterSessions(sid) ==
  {s \in Registered \ {sid} : RoomId(sessions[s].quiz) = RoomId(sessions[sid].quiz)}

\* C37: an auto-advance timer armed in a session that has since been torn
\* down (it is no longer registered) never changes a later session created
\* for the same room: when it fires, the currentQuestion of the new session
\* is unchanged.
C37_OldTimerSparesNewSession ==
  [][\A t \in BagToSet(timers) : (TimerFire(t) /\ t.sid \notin Registered) =>
       \A s \in LaterSessions(t.sid) :
         sessions'[s].currentQuestion = sessions[s].currentQuestion]_vars

====
